---- MODULE Spec2Model ----
(***************************************************************************)
(* Verification model of sentry's CloudSpanner string indexer              *)
(* (src/sentry/sentry_metrics/indexer/cloudspanner/cloudspanner.py):       *)
(*   - IdCodec, the bit-reversal codec between DecodedId and EncodedId;    *)
(*   - RawCloudSpannerIndexer, the indexer backend.                        *)
(* Each part has its own specification (SpecCodec, SpecIndexer); the       *)
(* variables of the other part stay at their initial values.               *)
(***************************************************************************)
EXTENDS Integers, Sequences, FiniteSets, TLC

VARIABLES
    \* ---- IdCodec ----
    value,        \* the DecodedId handed to IdCodec.encode
    enc,          \* outcome of IdCodec.encode(value)
    dec,          \* outcome of IdCodec.decode(enc.v)
    run,          \* outcomes of encode(value), encode(value+1), ... (a sequential run)
    cpc,          \* position of the codec caller: "start" | "encoded" | "decoded"
    \* ---- RawCloudSpannerIndexer ----
    ipc,          \* "idle" | "bulk" | "returned" | "raised"
    op,           \* operation of the current / last call
    use_case_id,  \* argument use_case_id of the call
    org_strings,  \* argument org_strings of bulk_record (org_id -> set of strings)
    arg,          \* arguments (org_id, string / id) of record, resolve, reverse_resolve
    orgs_left,    \* org ids the outer loop of bulk_record has not visited yet
    cur_org,      \* org id of the running outer iteration (NoOrg between iterations)
    strs_left,    \* strings the inner loop has not visited yet
    key_results,  \* the KeyResults built by bulk_record
    result,       \* what the call returned or raised
    prev,         \* the completed call before this one: [op, use_case_id, arg, result]
    \* ---- concurrent callers of one RawCloudSpannerIndexer ----
    callers,      \* caller -> the state of its call (see CallerIdle)
    \* ---- CachingIndexer(indexer_cache, RawCloudSpannerIndexer) ----
    cache,        \* indexer_cache: the set of entries [key, id] it holds
    cache_up,     \* whether the cache backend is reachable
    cleared,      \* the cache was cleared after the last completed call
    \* ---- OrganizationEndpoint (api/bases/organization.py) ----
    world,        \* the organization's projects and what request.access allows
    req,          \* the request: its user, its auth and its GET parameters
    ocall,        \* the endpoint call made for the request, with its outcome
    \* ---- OrganizationReleasesBaseEndpoint.has_release_permission ----
    release,      \* the projects the release is attached to (ReleaseProject)
    rcache,       \* django's cache: key -> None or the entry stored under it
    evals,        \* history: key -> the last value stored and the last one returned
    rcalls,       \* thread -> the has_release_permission call it is in
    now,          \* the clock, in seconds
    \* ---- OrganizationPermission.has_object_permission ----
    pcall,        \* the permission check made, with its inputs and outcome
    \* ---- OrganizationEndpoint.convert_args ----
    conv,         \* the convert_args call: its inputs, its position, what it bound
    \* ---- GroupSerializerBase._get_status (api/serializers/models/group.py) ----
    gcall         \* the group serialized: its row, its attrs, statusDetails and label

codec_vars   == <<value, enc, dec, run, cpc>>
indexer_vars == <<ipc, op, use_case_id, org_strings, arg, orgs_left, cur_org,
                  strs_left, key_results, result, prev>>
conc_vars    == <<callers>>
cache_vars   == <<cache, cache_up, cleared>>
org_vars     == <<world, req, ocall>>
rel_vars     == <<release, rcache, evals, rcalls, now>>
perm_vars    == <<pcall>>
conv_vars    == <<conv>>
group_vars   == <<gcall>>
vars == <<codec_vars, indexer_vars, conc_vars, cache_vars, org_vars, rel_vars, perm_vars,
          conv_vars, group_vars>>

\* What each part leaves alone.
codec_rest   == <<indexer_vars, conc_vars, cache_vars, org_vars, rel_vars, perm_vars, conv_vars, group_vars>>
indexer_rest == <<codec_vars, conc_vars, cache_vars, org_vars, rel_vars, perm_vars, conv_vars, group_vars>>
conc_rest    == <<codec_vars, indexer_vars, cache_vars, org_vars, rel_vars, perm_vars, conv_vars, group_vars>>
caching_rest == <<codec_vars, conc_vars, org_vars, rel_vars, perm_vars, conv_vars, group_vars>>
org_rest     == <<codec_vars, indexer_vars, conc_vars, cache_vars, rel_vars, perm_vars, conv_vars, group_vars>>
perm_rest    == <<codec_vars, indexer_vars, conc_vars, cache_vars, org_vars, rel_vars, conv_vars, group_vars>>
conv_rest    == <<codec_vars, indexer_vars, conc_vars, cache_vars, org_vars, rel_vars,
                 perm_vars, group_vars>>
group_rest   == <<codec_vars, indexer_vars, conc_vars, cache_vars, org_vars, rel_vars,
                 perm_vars, conv_vars>>
rel_rest     == <<codec_vars, indexer_vars, conc_vars, cache_vars, perm_vars, conv_vars, group_vars>>

(***************************************************************************)
(* Outcomes of a call: nothing yet, a returned value, a raised exception.  *)
(***************************************************************************)
NoResult    == [kind |-> "none"]
Return(v)   == [kind |-> "return", v |-> v]
Raise(exc)  == [kind |-> "raise", exc |-> exc]

\* Optional[...]: Python's None, or a value.
None    == [some |-> FALSE]
Some(v) == [some |-> TRUE, v |-> v]

(***************************************************************************)
(* IdCodec.                                                                *)
(*                                                                         *)
(* The code works on 64-bit patterns (reverse_bits(value, 64), 2**63).     *)
(* TLC's integers are 32 bits wide, so the width is the definition IdBits  *)
(* and every 64 of the code reads IdBits, every 2**63 reads                *)
(* 2^(IdBits-1).  All arithmetic is that of the code: Python integers are  *)
(* unbounded, so nothing wraps.                                            *)
(***************************************************************************)
IdBits == 8

\* How many consecutive ids a sequential run encodes.
RunLen == 3

\* 2**63 of the code.
HalfRange == 2 ^ (IdBits - 1)

\* DecodedId: the codec's domain [0, 2^63).
DecodedIds == 0 .. (HalfRange - 1)

\* Every unsigned pattern of the full width: the domain and [2^63, 2^64).
CodecInputs == 0 .. (2 ^ IdBits - 1)

\* sentry.sentry_metrics.indexer.id_generator.reverse_bits: the bit_size-bit
\* pattern of number (zero-extended), reversed bit for bit.
RECURSIVE reverse_bits(_, _)
reverse_bits(number, bit_size) ==
    IF bit_size = 0
    THEN 0
    ELSE (number % 2) * 2 ^ (bit_size - 1) + reverse_bits(number \div 2, bit_size - 1)

\* Mutants of encode: bugs the claims below must notice.
encode_no_offset(v)    == reverse_bits(v, IdBits)
encode_no_shift(v)     == reverse_bits(v, IdBits - 1) - HalfRange
encode_drop_bit(v)     == reverse_bits(v \div 2, IdBits) - HalfRange
encode_no_reverse(v)   == v - HalfRange
encode_pos_offset(v)   == reverse_bits(v, IdBits) + HalfRange

\* IdCodec.encode
encode(v) == reverse_bits(v, IdBits) - HalfRange

\* Mutants of decode.
decode_no_offset(v)   == reverse_bits(v % (2 ^ IdBits), IdBits)

\* IdCodec.decode
decode(v) == reverse_bits(v + HalfRange, IdBits)

\* The codec before any call.
CodecIdle ==
    /\ enc = NoResult
    /\ dec = NoResult
    /\ run = <<>>
    /\ cpc = "start"

\* codec.encode(value): the caller keeps the result.
Encode ==
    /\ cpc = "start"
    /\ enc' = Return(encode(value))
    /\ run' = <<encode(value)>>
    /\ cpc' = "encoded"
    /\ UNCHANGED <<value, dec>>

\* codec.encode(value + k) for the next id of a sequential run.
EncodeNext ==
    /\ cpc = "encoded"
    /\ Len(run) < RunLen
    /\ value + Len(run) \in CodecInputs
    /\ run' = Append(run, encode(value + Len(run)))
    /\ UNCHANGED <<value, enc, dec, cpc>>

\* codec.decode(encoded) on what encode returned.
Decode ==
    /\ cpc = "encoded"
    /\ enc.kind = "return"
    /\ dec' = Return(decode(enc.v))
    /\ cpc' = "decoded"
    /\ UNCHANGED <<value, enc, run>>

NextCodec ==
    \/ (Encode /\ UNCHANGED codec_rest)
    \/ (EncodeNext /\ UNCHANGED codec_rest)
    \/ (Decode /\ UNCHANGED codec_rest)

(***************************************************************************)
(* RawCloudSpannerIndexer.                                                 *)
(***************************************************************************)
\* Largest org id of the model.
MaxOrg == 2

\* Largest id handed to reverse_resolve.
MaxId == 2

OrgIds   == 1 .. MaxOrg
Strings  == {"a", "b"}
Ids      == 1 .. MaxId
\* UseCaseKey
UseCases == {"release-health", "performance"}

NoOrg == 0
NoArg == [org_id |-> NoOrg]

\* Mapping[int, Set[str]]: every mapping from some org ids to sets of strings.
OrgStringMappings == UNION {[D -> SUBSET Strings] : D \in SUBSET OrgIds}

\* The (org_id, string) pairs of a mapping.
Pairs(m) == {<<o, s>> : o \in DOMAIN m, s \in Strings} \cap
            UNION {{<<o, s>> : s \in m[o]} : o \in DOMAIN m}

\* KeyResult(org_id, string, id)
KeyResult(o, s, i) == [org_id |-> o, string |-> s, id |-> i]

\* KeyResults.add_key_result: the aggregate is keyed by (org_id, string).
add_key_result(krs, kr) ==
    {k \in krs : ~(k.org_id = kr.org_id /\ k.string = kr.string)} \cup {kr}

\* Mutant of record: the stub passes instead of raising, so it returns None.
record_returns_none(u, o, s) == Return(None)

\* RawCloudSpannerIndexer.record
record(u, o, s) == Raise("NotImplementedError")

\* RawCloudSpannerIndexer.resolve
resolve(u, o, s) == Raise("NotImplementedError")

\* RawCloudSpannerIndexer.reverse_resolve
reverse_resolve(u, o, i) == Raise("NotImplementedError")

NoCall == [op |-> "none"]

\* What opening the snapshot or running the query can do: succeed, or raise
\* the error class validate catches, or raise another error.
CallOutcomes == {"ok", "ValueError", "GoogleAPICallError"}

\* Mutant of validate's except clause: it catches every exception.
execute_sql_catch_all(q) == Return(None)

\* validate, lines 57-61: snapshot.execute_sql("SELECT 1") inside
\* try / except ValueError: pass; validate then returns None.
execute_sql_guarded(q) ==
    IF q = "ok" THEN Return(None)
    ELSE IF q = "ValueError" THEN Return(None)
    ELSE Raise(q)

\* The indexer after construction: no call yet.
IndexerIdle ==
    /\ ipc = "idle"
    /\ op = "none"
    /\ use_case_id = "release-health"
    /\ org_strings = <<>>
    /\ arg = NoArg
    /\ orgs_left = {}
    /\ cur_org = NoOrg
    /\ strs_left = {}
    /\ key_results = {}
    /\ result = NoResult
    /\ prev = NoCall

\* bulk_record(use_case_id, org_strings) is entered: key_results = KeyResults().
\* name tells a direct call from one made through the caching indexer.
BulkRecordEnter(name) ==
    /\ ipc = "idle"
    /\ \E u \in UseCases, m \in OrgStringMappings :
        /\ use_case_id' = u
        /\ org_strings' = m
        /\ orgs_left' = DOMAIN m
    /\ op' = name
    /\ arg' = NoArg
    /\ cur_org' = NoOrg
    /\ strs_left' = {}
    /\ key_results' = {}
    /\ result' = NoResult
    /\ ipc' = "bulk"
    /\ UNCHANGED prev

BulkRecordCall == BulkRecordEnter("bulk_record")

\* for (org_id, strings) in org_strings.items(): the next org of the outer loop.
BulkRecordNextOrg ==
    /\ ipc = "bulk"
    /\ strs_left = {}
    /\ \E o \in orgs_left :
        /\ cur_org' = o
        /\ strs_left' = org_strings[o]
        /\ orgs_left' = orgs_left \ {o}
    /\ UNCHANGED <<ipc, op, use_case_id, org_strings, arg, key_results, result, prev>>

\* for string in strings: result = self.record(...); key_results.add_key_result(...).
\* An exception of record is not caught: it leaves bulk_record.
BulkRecordItem ==
    /\ ipc = "bulk"
    /\ \E s \in strs_left :
        LET r == record(use_case_id, cur_org, s) IN
        IF r.kind = "raise"
        THEN /\ ipc' = "raised"
             /\ result' = r
             /\ UNCHANGED <<strs_left, key_results>>
        ELSE /\ key_results' = add_key_result(key_results, KeyResult(cur_org, s, r.v))
             /\ strs_left' = strs_left \ {s}
             /\ UNCHANGED <<ipc, result>>
    /\ UNCHANGED <<op, use_case_id, org_strings, arg, orgs_left, cur_org, prev>>

\* return key_results
BulkRecordReturn ==
    /\ ipc = "bulk"
    /\ strs_left = {}
    /\ orgs_left = {}
    /\ result' = Return(key_results)
    /\ ipc' = "returned"
    /\ UNCHANGED <<op, use_case_id, org_strings, arg, orgs_left, cur_org, strs_left,
                   key_results, prev>>

\* A call of record, resolve or reverse_resolve: one step from entry to outcome.
SingleCall(name, u, a, r) ==
    /\ ipc = "idle"
    /\ op' = name
    /\ use_case_id' = u
    /\ arg' = a
    /\ org_strings' = <<>>
    /\ orgs_left' = {}
    /\ cur_org' = NoOrg
    /\ strs_left' = {}
    /\ key_results' = {}
    /\ result' = r
    /\ ipc' = IF r.kind = "raise" THEN "raised" ELSE "returned"
    /\ UNCHANGED prev

Record ==
    \E u \in UseCases, o \in OrgIds, s \in Strings :
        SingleCall("record", u, [org_id |-> o, string |-> s], record(u, o, s))

Resolve ==
    \E u \in UseCases, o \in OrgIds, s \in Strings :
        SingleCall("resolve", u, [org_id |-> o, string |-> s], resolve(u, o, s))

ReverseResolve ==
    \E u \in UseCases, o \in OrgIds, i \in Ids :
        SingleCall("reverse_resolve", u, [org_id |-> o, id |-> i], reverse_resolve(u, o, i))

\* validate(): with self.database.snapshot() as snapshot.  Opening the
\* snapshot is outside the try: whatever it raises leaves validate.
ValidateOpen ==
    /\ ipc = "idle"
    /\ \E e \in CallOutcomes :
        /\ arg' = [snapshot |-> e, query |-> "not run"]
        /\ IF e = "ok"
           THEN ipc' = "snapshot" /\ result' = NoResult
           ELSE ipc' = "raised" /\ result' = Raise(e)
    /\ op' = "validate"
    /\ org_strings' = <<>>
    /\ orgs_left' = {}
    /\ cur_org' = NoOrg
    /\ strs_left' = {}
    /\ key_results' = {}
    /\ UNCHANGED <<use_case_id, prev>>

\* validate(): the query inside the snapshot, and the end of validate.
ValidateQuery ==
    /\ ipc = "snapshot"
    /\ \E q \in CallOutcomes :
        /\ arg' = [arg EXCEPT !.query = q]
        /\ result' = execute_sql_guarded(q)
        /\ ipc' = IF execute_sql_guarded(q).kind = "raise" THEN "raised" ELSE "returned"
    /\ UNCHANGED <<op, use_case_id, org_strings, orgs_left, cur_org, strs_left,
                   key_results, prev>>

\* The caller takes the outcome; the indexer is ready for the next call.
Finish ==
    /\ ipc \in {"returned", "raised"}
    /\ prev' = [op |-> op, use_case_id |-> use_case_id, arg |-> arg,
                org_strings |-> org_strings, result |-> result]
    /\ ipc' = "idle"
    /\ UNCHANGED <<op, use_case_id, org_strings, arg, orgs_left, cur_org, strs_left,
                   key_results, result>>

NextIndexer ==
    \/ (BulkRecordCall /\ UNCHANGED indexer_rest)
    \/ (BulkRecordNextOrg /\ UNCHANGED indexer_rest)
    \/ (BulkRecordItem /\ UNCHANGED indexer_rest)
    \/ (BulkRecordReturn /\ UNCHANGED indexer_rest)
    \/ (Record /\ UNCHANGED indexer_rest)
    \/ (Resolve /\ UNCHANGED indexer_rest)
    \/ (ReverseResolve /\ UNCHANGED indexer_rest)
    \/ (ValidateOpen /\ UNCHANGED indexer_rest)
    \/ (ValidateQuery /\ UNCHANGED indexer_rest)
    \/ (Finish /\ UNCHANGED indexer_rest)

(***************************************************************************)
(* Several callers of one RawCloudSpannerIndexer at once.  The indexer     *)
(* holds no mutable state of its own (instance and database are set once   *)
(* in __init__), so the callers share nothing but the code; every call of  *)
(* self.record is one step of its caller.                                  *)
(***************************************************************************)
Callers == {"c1", "c2"}

\* A caller outside any call.
CallerIdle ==
    [pc |-> "idle", op |-> "none", use_case_id |-> "release-health",
     org_strings |-> <<>>, orgs_left |-> {}, cur_org |-> NoOrg, strs_left |-> {},
     key_results |-> {}, result |-> NoResult]

ConcIdle == callers = [c \in Callers |-> CallerIdle]

\* Caller c enters bulk_record(u, m).
CBulkRecordCall(c) ==
    /\ callers[c].pc = "idle"
    /\ \E u \in UseCases, m \in OrgStringMappings :
        callers' = [callers EXCEPT ![c] =
            [pc |-> "bulk", op |-> "bulk_record", use_case_id |-> u, org_strings |-> m,
             orgs_left |-> DOMAIN m, cur_org |-> NoOrg, strs_left |-> {},
             key_results |-> {}, result |-> NoResult]]

\* Caller c: the next org of the outer loop.
CBulkRecordNextOrg(c) ==
    /\ callers[c].pc = "bulk"
    /\ callers[c].strs_left = {}
    /\ \E o \in callers[c].orgs_left :
        callers' = [callers EXCEPT ![c].cur_org = o,
                                   ![c].strs_left = callers[c].org_strings[o],
                                   ![c].orgs_left = callers[c].orgs_left \ {o}]

\* Caller c: one iteration of the inner loop.
CBulkRecordItem(c) ==
    /\ callers[c].pc = "bulk"
    /\ \E s \in callers[c].strs_left :
        LET r == record(callers[c].use_case_id, callers[c].cur_org, s) IN
        IF r.kind = "raise"
        THEN callers' = [callers EXCEPT ![c].pc = "raised", ![c].result = r]
        ELSE callers' = [callers EXCEPT
                 ![c].key_results =
                     add_key_result(callers[c].key_results,
                                    KeyResult(callers[c].cur_org, s, r.v)),
                 ![c].strs_left = callers[c].strs_left \ {s}]

\* Caller c: return key_results.
CBulkRecordReturn(c) ==
    /\ callers[c].pc = "bulk"
    /\ callers[c].strs_left = {}
    /\ callers[c].orgs_left = {}
    /\ callers' = [callers EXCEPT ![c].pc = "returned",
                                  ![c].result = Return(callers[c].key_results)]

\* Caller c calls record(u, o, s): the pair is kept as a one-pair mapping.
CRecord(c) ==
    /\ callers[c].pc = "idle"
    /\ \E u \in UseCases, o \in OrgIds, s \in Strings :
        LET r == record(u, o, s) IN
        callers' = [callers EXCEPT ![c] =
            [pc |-> IF r.kind = "raise" THEN "raised" ELSE "returned",
             op |-> "record", use_case_id |-> u, org_strings |-> (o :> {s}),
             orgs_left |-> {}, cur_org |-> o, strs_left |-> {},
             key_results |-> {}, result |-> r]]

NextConcurrent ==
    \/ \E c \in Callers : CBulkRecordCall(c) /\ UNCHANGED conc_rest
    \/ \E c \in Callers : CBulkRecordNextOrg(c) /\ UNCHANGED conc_rest
    \/ \E c \in Callers : CBulkRecordItem(c) /\ UNCHANGED conc_rest
    \/ \E c \in Callers : CBulkRecordReturn(c) /\ UNCHANGED conc_rest
    \/ \E c \in Callers : CRecord(c) /\ UNCHANGED conc_rest

(***************************************************************************)
(* CloudSpannerIndexer: CachingIndexer(indexer_cache, RawCloudSpannerIndexer)*)
(* (lines 87-89).  CachingIndexer and StringIndexerCache are not among the *)
(* source files; they follow the specification: reads consult the cache    *)
(* first, fall back to the store on a miss and populate the cache; writes  *)
(* go to the store and then update the cache; a cache that cannot be       *)
(* reached is skipped.  The store is the RawCloudSpannerIndexer above.     *)
(***************************************************************************)
\* The cache key of a string entry.
CacheKey(u, o, s) == <<u, o, s>>

CacheHit(k) == cache_up /\ \E e \in cache : e.key = k
CachedId(k) == (CHOOSE e \in cache : e.key = k).id

\* The cache after set(k, id); an unreachable cache is left as it is.
CacheSet(k, id) ==
    IF cache_up THEN {e \in cache : e.key # k} \cup {[key |-> k, id |-> id]} ELSE cache

\* CachingIndexer.resolve: the cache first, the store on a miss.
cached_resolve(u, o, s) ==
    IF CacheHit(CacheKey(u, o, s))
    THEN Return(Some(CachedId(CacheKey(u, o, s))))
    ELSE resolve(u, o, s)

\* CachingIndexer.record: the store, whose outcome is the caller's.
cached_record(u, o, s) == record(u, o, s)

\* The cache after a call that went to the store with outcome r.
CacheAfter(k, r) ==
    IF r.kind = "return" /\ r.v.some THEN CacheSet(k, r.v.v) ELSE cache

CachingIdle == cache = {} /\ cache_up = TRUE /\ cleared = FALSE

CachedCall(name, u, o, s, r, c) ==
    /\ SingleCall(name, u, [org_id |-> o, string |-> s], r)
    /\ cache' = c
    /\ UNCHANGED <<cache_up, cleared>>

CachedRecord ==
    \E u \in UseCases, o \in OrgIds, s \in Strings :
        CachedCall("cached_record", u, o, s, cached_record(u, o, s),
                   CacheAfter(CacheKey(u, o, s), cached_record(u, o, s)))

CachedResolve ==
    \E u \in UseCases, o \in OrgIds, s \in Strings :
        CachedCall("cached_resolve", u, o, s, cached_resolve(u, o, s),
                   IF CacheHit(CacheKey(u, o, s)) THEN cache
                   ELSE CacheAfter(CacheKey(u, o, s), cached_resolve(u, o, s)))

\* CachingIndexer.bulk_record hands the batch to the store's bulk_record ...
CachedBulkRecordCall ==
    /\ BulkRecordEnter("cached_bulk_record")
    /\ UNCHANGED <<cache, cache_up, cleared>>

\* ... and, when the store returned, puts the ids it got into the cache.
CachedBulkRecordReturn ==
    /\ BulkRecordReturn
    /\ cache' = IF cache_up
                THEN {e \in cache : \A k \in key_results :
                         e.key # CacheKey(use_case_id, k.org_id, k.string)}
                     \cup {[key |-> CacheKey(use_case_id, k.org_id, k.string), id |-> k.id.v] :
                             k \in {k \in key_results : k.id.some}}
                ELSE cache
    /\ UNCHANGED <<cache_up, cleared>>

\* The cache is cleared, or loses its entries, between two calls.
CacheClear ==
    /\ ipc = "idle"
    /\ cache' = {}
    /\ cleared' = TRUE
    /\ UNCHANGED <<cache_up, indexer_vars>>

\* The cache backend goes away or comes back between two calls.
CacheToggle ==
    /\ ipc = "idle"
    /\ cache_up' = ~cache_up
    /\ UNCHANGED <<cache, cleared, indexer_vars>>

\* The caller takes the outcome of a call made through the cache.
CachedFinish ==
    /\ Finish
    /\ cleared' = FALSE
    /\ UNCHANGED <<cache, cache_up>>

NextCaching ==
    \/ (CachedRecord /\ UNCHANGED caching_rest)
    \/ (CachedResolve /\ UNCHANGED caching_rest)
    \/ (CachedBulkRecordCall /\ UNCHANGED caching_rest)
    \/ (BulkRecordNextOrg /\ UNCHANGED <<caching_rest, cache_vars>>)
    \/ (BulkRecordItem /\ UNCHANGED <<caching_rest, cache_vars>>)
    \/ (CachedBulkRecordReturn /\ UNCHANGED caching_rest)
    \/ (CacheClear /\ UNCHANGED caching_rest)
    \/ (CacheToggle /\ UNCHANGED caching_rest)
    \/ (CachedFinish /\ UNCHANGED caching_rest)

(***************************************************************************)
(* OrganizationEndpoint: which projects a request may work on              *)
(* (api/bases/organization.py).                                            *)
(*                                                                         *)
(* The organization has the projects of ProjectIds; each is VISIBLE, has   *)
(* another status (hidden), or is no project of this organization (absent).*)
(* request.access is given by the projects it grants access to and the     *)
(* projects it counts the user a member of.  Lists of projects are kept as *)
(* sets of project ids: the code never relies on their order.              *)
(***************************************************************************)
ProjectIds == {1, 2}

\* sentry.constants.ALL_ACCESS_PROJECTS: "A project_id of -1 means 'all projects
\* I have access to'" (line 224).
ALL_ACCESS_PROJECTS == {-1}

\* sentry.constants.ALL_ACCESS_PROJECTS_SLUG
ALL_ACCESS_PROJECTS_SLUG == "$all"

\* Project.slug
SlugOf(p) == IF p = 1 THEN "p1" ELSE "p2"

Worlds ==
    {w \in [visible : SUBSET ProjectIds, hidden : SUBSET ProjectIds,
            access : SUBSET ProjectIds, member : SUBSET ProjectIds] :
        w.visible \cap w.hidden = {}}

\* request.user: no user (None, or no such attribute), AnonymousUser, a signed-in user, a signed-in
\* user in active superuser mode.
Users == {"none", "anonymous", "user", "superuser"}

\* request.GET.getlist("project") as numbers, request.GET.getlist("projectSlug").
GetProjectChoices == (SUBSET ProjectIds) \cup {ALL_ACCESS_PROJECTS}
SlugChoices       == {{}, {ALL_ACCESS_PROJECTS_SLUG}, {"p1"}, {"p2", "gone"}}

\* request.auth: none, or an ApiKey / ApiToken (used by the release endpoints).
NoAuth == [kind |-> "none"]

Requests ==
    [user : Users, auth : {NoAuth}, project : GetProjectChoices, projectSlug : SlugChoices]

\* The project_ids / project_slugs arguments: None or a set.
ProjectIdArgs   == {None} \cup {Some(s) : s \in GetProjectChoices}
ProjectSlugArgs == {None, Some({"p1"}), Some({ALL_ACCESS_PROJECTS_SLUG})}

\* Python truthiness of an Optional[Set].
Truthy(a) == a.some /\ a.v # {}

\* request.access.has_project_access / has_project_membership
has_project_access(p)     == p \in world.access
has_project_membership(p) == p \in world.member

\* getattr(request, "user", None) and request.user.is_authenticated
is_authenticated == req.user \in {"user", "superuser"}

\* is_active_superuser(request)
is_active_superuser == req.user = "superuser"

\* Mutant of _get_projects_by_id: the final comparison is left out.
get_projects_by_id_no_final_check(project_ids, force_global_perms, include_all_accessible) ==
    LET qs == IF project_ids # {} /\ project_ids # ALL_ACCESS_PROJECTS
              THEN world.visible \cap project_ids ELSE world.visible
    IN  Return(IF force_global_perms THEN qs ELSE {p \in qs : has_project_access(p)})

\* OrganizationEndpoint._get_projects_by_id (lines 214-260).
get_projects_by_id(project_ids, force_global_perms, include_all_accessible) ==
    LET all       == project_ids = ALL_ACCESS_PROJECTS
        incl      == include_all_accessible \/ all
        pids      == IF all THEN {} ELSE project_ids
        requested == pids
        qs        == IF pids # {} THEN world.visible \cap pids ELSE world.visible
        by_access == \/ (req.user # "none" /\ is_active_superuser)
                     \/ requested # {}
                     \/ incl
        projects  == IF force_global_perms THEN qs
                     ELSE IF by_access THEN {p \in qs : has_project_access(p)}
                     ELSE {p \in qs : has_project_membership(p)}
    IN  IF requested # {} /\ projects # requested
        THEN Raise("PermissionDenied")
        ELSE Return(projects)

\* get_projects, lines 194-204: the project ids handed to _get_projects_by_id.
requested_project_ids(project_ids, project_slugs) ==
    IF project_ids.some THEN project_ids.v
    ELSE LET slugs == IF Truthy(project_slugs) THEN project_slugs.v ELSE req.projectSlug
         IN  IF ALL_ACCESS_PROJECTS_SLUG \in slugs THEN ALL_ACCESS_PROJECTS
             ELSE IF slugs # {}
                  THEN {p \in world.visible \cup world.hidden : SlugOf(p) \in slugs}
                  ELSE req.project

\* OrganizationEndpoint.get_projects (lines 163-212).
get_projects(force_global_perms, include_all_accessible, project_ids, project_slugs) ==
    get_projects_by_id(requested_project_ids(project_ids, project_slugs),
                       force_global_perms, include_all_accessible)

\* OrganizationEndpoint.get_filter_params (lines 277-344): its outcome, with the
\* project_id list of the returned params as a set.  Line 319 hands project_ids
\* to get_projects as its third positional argument, force_global_perms.
get_filter_params(date_valid, project_ids) ==
    IF ~date_valid THEN Raise("ParseError")
    ELSE LET projects == get_projects(Truthy(project_ids), FALSE, None, None)
         IN  IF projects.kind = "raise" THEN projects
             ELSE IF projects.v = {} THEN Raise("NoProjects")
             ELSE projects

NoOCall == [op |-> "none"]

\* No request is being handled.
IdleRequest == [user |-> "none", auth |-> NoAuth, project |-> {}, projectSlug |-> {}]

OrgIdle ==
    /\ world = [visible |-> {}, hidden |-> {}, access |-> {}, member |-> {}]
    /\ req = IdleRequest
    /\ ocall = NoOCall

\* self.get_projects(request, organization, ...) is called.
GetProjects ==
    /\ ocall.op = "none"
    /\ \E f \in BOOLEAN, i \in BOOLEAN, ids \in ProjectIdArgs, slugs \in ProjectSlugArgs :
        ocall' = [op |-> "get_projects", force_global_perms |-> f,
                  include_all_accessible |-> i, project_ids |-> ids,
                  project_slugs |-> slugs, result |-> get_projects(f, i, ids, slugs)]
    /\ UNCHANGED <<world, req>>

\* self.get_filter_params(request, organization, project_ids=...) is called.
GetFilterParams ==
    /\ ocall.op = "none"
    /\ \E d \in BOOLEAN, ids \in ProjectIdArgs :
        ocall' = [op |-> "get_filter_params", date_valid |-> d, project_ids |-> ids,
                  result |-> get_filter_params(d, ids)]
    /\ UNCHANGED <<world, req>>

NextProjects ==
    \/ (GetProjects /\ UNCHANGED org_rest)
    \/ (GetFilterParams /\ UNCHANGED org_rest)

(***************************************************************************)
(* OrganizationReleasesBaseEndpoint: has_release_permission and its cache. *)
(*                                                                         *)
(* One organization and one release; two threads serve the requests, their *)
(* steps interleaved, while the clock advances and request.access changes. *)
(* django's cache keeps an entry for the timeout it was set with and holds *)
(* nothing else under these keys; hash_values is taken to be injective, so *)
(* a key is the list that is hashed.                                       *)
(***************************************************************************)
\* cache.set(key, has_perms, 60): the timeout in seconds.
CacheTimeout == 60

\* Seconds per step of the clock, and the number of steps taken.
TickSeconds == 30
MaxTicks == 2

\* request.user.id of the signed-in user, request.auth.id of an ApiKey / ApiToken.
UserId == 1
AuthId == 7

\* request.auth of the release endpoints: nothing, an ApiKey of this or another
\* organization with its scopes, or an ApiToken.
Auths ==
    {NoAuth,
     [kind |-> "apikey", same_org |-> TRUE,  scopes |-> {"project:releases"}],
     [kind |-> "apikey", same_org |-> TRUE,  scopes |-> {"org:read"}],
     [kind |-> "apikey", same_org |-> FALSE, scopes |-> {"project:write"}],
     [kind |-> "token"]}

\* The requests made for the release: by nobody, by the signed-in user (for all
\* projects or for project 1) and with an ApiKey that holds project:releases.
ReleaseRequests ==
    {r \in [user : {"anonymous", "user"}, auth : Auths,
            project : {{}, {1}}, projectSlug : {{}}] :
        \/ r.auth = NoAuth /\ (r.user = "user" \/ r.project = {})
        \/ /\ r.auth.kind = "apikey" /\ r.auth.same_org
           /\ "project:releases" \in r.auth.scopes
           /\ r.user = "anonymous" /\ r.project = {}}

\* sorted(...) of a set of numbers.
RECURSIVE sorted(_)
sorted(S) ==
    IF S = {} THEN <<>>
    ELSE LET m == CHOOSE x \in S : \A y \in S : x <= y
         IN  <<m>> \o sorted(S \ {m})

\* Lines 423-426: the actor of the request, None without a user id and an auth id.
actor_id ==
    IF req.auth.kind # "none" THEN Some(<<"apikey", AuthId>>)
    ELSE IF is_authenticated THEN Some(<<"user", UserId>>)
    ELSE None

\* Lines 428-431: the cache key (organization and release are fixed).
release_perms_key(actor) == <<"release_perms:1", actor, sorted(req.project)>>

CacheKeys ==
    {<<"release_perms:1", a, sorted(s)>> :
        a \in {<<"apikey", AuthId>>, <<"user", UserId>>}, s \in {{}, {1}}}

\* cache.get(key): None, or the value of an entry that has not expired.
cache_get(key) ==
    IF rcache[key].some /\ now < rcache[key].v.expires
    THEN Some(rcache[key].v.value) ELSE None

\* cache.set(key, value, timeout): the cache afterwards.
cache_set(key, val, timeout) ==
    [rcache EXCEPT ![key] = Some([value |-> val, expires |-> now + timeout])]

\* Lines 390-396: has_valid_api_key where the method goes on past line 393.
has_valid_api_key ==
    /\ req.auth.kind = "apikey"
    /\ req.auth.same_org
    /\ ("project:releases" \in req.auth.scopes \/ "project:write" \in req.auth.scopes)

\* Mutant of releases_returns_empty: the ApiKey's organization is not compared.
releases_returns_empty_any_org ==
    ~ (\/ (req.auth.kind = "apikey"
           /\ ("project:releases" \in req.auth.scopes
               \/ "project:write" \in req.auth.scopes))
       \/ is_authenticated)

\* Lines 391-401: the method returns [] before asking the parent class.
releases_returns_empty ==
    \/ (req.auth.kind = "apikey" /\ ~req.auth.same_org)
    \/ ~ (has_valid_api_key \/ is_authenticated)

\* OrganizationReleasesBaseEndpoint.get_projects (lines 383-409).
releases_get_projects(project_ids, include_all_accessible) ==
    IF releases_returns_empty THEN Return({})
    ELSE get_projects(has_valid_api_key, include_all_accessible, project_ids, None)

\* Mutant of is_miss: a cached False counts as a miss.
is_miss_when_falsy(has_perms) == ~has_perms.some \/ ~has_perms.v

\* Line 433: has_perms is None.
is_miss(has_perms) == ~has_perms.some

\* The threads of the server: each handles one request at a time.  req is the
\* request of the thread that is running.
Threads == {"t1", "t2"}

NoRCall == [pc |-> "idle"]

\* Nothing is known of a key's earlier calls.
NoEvals == [stored |-> None, returned |-> None]

RelIdle ==
    /\ release = {}
    /\ rcache = [k \in CacheKeys |-> None]
    /\ evals = [k \in CacheKeys |-> NoEvals]
    /\ rcalls = [t \in Threads |-> NoRCall]
    /\ now = 0

\* Thread t is running: the request at hand is its own.
Running(t) == rcalls[t].pc # "idle" /\ req = rcalls[t].req

\* The call of thread t ends with `res`: what it leaves in rcalls and in the
\* history of its key.
Finished(t, call, res) ==
    [call EXCEPT !.pc = "done", !.result = res, !.done_at = now,
                 !.prior = IF call.key.some THEN evals[call.key.v].returned ELSE None]

ReturnedEvals(ev, call, res) ==
    IF call.key.some /\ call.evaluated /\ res.kind = "return"
    THEN [ev EXCEPT ![call.key.v].returned = Some([at |-> now, value |-> res.v])]
    ELSE ev

\* A request for the release arrives at an idle thread, which starts on it; the
\* second thread takes the requests that arrive while the first is busy.
ReleaseRequest(t) ==
    /\ rcalls[t].pc = "idle"
    /\ t = "t2" => rcalls["t1"].pc # "idle"
    /\ \E r \in ReleaseRequests :
        /\ req' = r
        /\ rcalls' = [rcalls EXCEPT ![t] = [pc |-> "cache_get", req |-> r]]
    /\ UNCHANGED <<world, ocall, release, rcache, evals, now>>

\* The server goes on with thread t.
Resume(t) ==
    /\ rcalls[t].pc \notin {"idle", "done"}
    /\ req # rcalls[t].req
    /\ req' = rcalls[t].req
    /\ UNCHANGED <<world, ocall, rel_vars>>

\* has_release_permission, lines 420-433: the actor, the key and cache.get; on
\* a hit the cached value is returned (line 440).
PermsCacheGet(t) ==
    /\ Running(t)
    /\ rcalls[t].pc = "cache_get"
    /\ LET actor     == actor_id
           key       == IF actor.some THEN Some(release_perms_key(actor.v)) ELSE None
           has_perms == IF actor.some THEN cache_get(key.v) ELSE None
           call      == [pc |-> "query", req |-> req, key |-> key,
                         read |-> actor.some, get_at |-> now,
                         seen |-> IF key.some THEN evals[key.v].stored ELSE None,
                         evaluated |-> FALSE, written |-> FALSE,
                         has_perms |-> has_perms, projects |-> {},
                         prior |-> None, done_at |-> now,
                         result |-> NoResult]
       IN  IF is_miss(has_perms)
           THEN /\ rcalls' = [rcalls EXCEPT ![t] = call]
                /\ evals' = evals
           ELSE /\ rcalls' = [rcalls EXCEPT ![t] =
                                Finished(t, call, Return(has_perms.v))]
                /\ evals' = ReturnedEvals(evals, call, Return(has_perms.v))
    /\ UNCHANGED <<world, req, ocall, release, rcache, now>>

\* Lines 434-435, first round trip to the database: self.get_projects fetches
\* the organization's projects (line 235) and filters them by request.access
\* (lines 240-253); the thread then holds the projects and waits on the second
\* query.  PermissionDenied of get_projects ends the call.  A request that
\* get_projects answers with [] (lines 391-401) makes no such query.
PermsProjects(t) ==
    /\ Running(t)
    /\ rcalls[t].pc = "query"
    /\ ~releases_returns_empty
    /\ LET projects == releases_get_projects(None, TRUE)
           call     == [rcalls[t] EXCEPT !.evaluated = TRUE]
       IN  IF projects.kind = "raise"
           THEN rcalls' = [rcalls EXCEPT ![t] = Finished(t, call, projects)]
           ELSE rcalls' = [rcalls EXCEPT ![t] =
                              [call EXCEPT !.pc = "exists", !.projects = projects.v]]
    /\ UNCHANGED <<world, req, ocall, release, rcache, evals, now>>

\* Lines 434-436, second round trip: ReleaseProject...exists() over the
\* projects held.  Without a key the result is returned (lines 437, 440).
PermsExists(t) ==
    /\ Running(t)
    /\ \/ rcalls[t].pc = "exists"
       \/ (rcalls[t].pc = "query" /\ releases_returns_empty)
    /\ LET projects == IF rcalls[t].pc = "exists" THEN rcalls[t].projects
                       ELSE releases_get_projects(None, TRUE).v
           exists   == release \cap projects # {}
           call     == [rcalls[t] EXCEPT !.evaluated = TRUE, !.projects = {},
                                         !.has_perms = Some(exists)]
       IN  IF call.key.some
           THEN rcalls' = [rcalls EXCEPT ![t] = [call EXCEPT !.pc = "cache_set"]]
           ELSE rcalls' = [rcalls EXCEPT ![t] = Finished(t, call, Return(exists))]
    /\ UNCHANGED <<world, req, ocall, release, rcache, evals, now>>

\* Lines 437-440: cache.set, and the result is returned.
PermsCacheSet(t) ==
    /\ Running(t)
    /\ rcalls[t].pc = "cache_set"
    /\ LET call == [rcalls[t] EXCEPT !.written = TRUE]
           val  == call.has_perms.v
           ev   == [evals EXCEPT ![call.key.v].stored =
                        Some([at |-> now, value |-> val])]
       IN  /\ rcache' = cache_set(call.key.v, val, CacheTimeout)
           /\ rcalls' = [rcalls EXCEPT ![t] = Finished(t, call, Return(val))]
           /\ evals' = ReturnedEvals(ev, call, Return(val))
    /\ UNCHANGED <<world, req, ocall, release, now>>

\* The request of thread t is answered.
Respond(t) ==
    /\ rcalls[t].pc = "done"
    /\ rcalls' = [rcalls EXCEPT ![t] = NoRCall]
    /\ UNCHANGED <<world, req, ocall, release, rcache, evals, now>>

\* Time passes; entries of the cache expire.
Tick ==
    /\ now < MaxTicks * TickSeconds
    /\ now' = now + TickSeconds
    /\ rcache' = [k \in CacheKeys |->
                    IF rcache[k].some /\ rcache[k].v.expires <= now'
                    THEN None ELSE rcache[k]]
    /\ evals' = [k \in CacheKeys |->
                    [stored |->
                        IF evals[k].stored.some
                           /\ evals[k].stored.v.at + CacheTimeout <= now'
                        THEN None ELSE evals[k].stored,
                     returned |->
                        IF evals[k].returned.some
                           /\ evals[k].returned.v.at + CacheTimeout <= now'
                        THEN None ELSE evals[k].returned]]
    /\ UNCHANGED <<world, req, ocall, release, rcalls>>

\* The access of the requests changes (team membership, roles): it is granted
\* or revoked.
AccessChange ==
    /\ \E a \in {{}, ProjectIds} :
        /\ a # world.access
        /\ world' = [world EXCEPT !.access = a, !.member = a]
    /\ UNCHANGED <<req, ocall, rel_vars>>

\* self.get_projects(request, organization, ...) of a release endpoint is called.
ReleasesGetProjects ==
    /\ ocall.op = "none"
    /\ \E i \in BOOLEAN, ids \in ProjectIdArgs :
        ocall' = [op |-> "releases_get_projects", include_all_accessible |-> i,
                  project_ids |-> ids,
                  consulted |-> ~releases_returns_empty,
                  force_global_perms |-> has_valid_api_key,
                  result |-> releases_get_projects(ids, i)]
    /\ UNCHANGED <<world, req, rel_vars>>

NextReleaseProjects ==
    \/ (ReleasesGetProjects /\ UNCHANGED rel_rest)

NextRelease ==
    \/ (\E t \in Threads : ReleaseRequest(t) /\ UNCHANGED rel_rest)
    \/ (\E t \in Threads : Resume(t) /\ UNCHANGED rel_rest)
    \/ (\E t \in Threads : PermsCacheGet(t) /\ UNCHANGED rel_rest)
    \/ (\E t \in Threads : PermsProjects(t) /\ UNCHANGED rel_rest)
    \/ (\E t \in Threads : PermsExists(t) /\ UNCHANGED rel_rest)
    \/ (\E t \in Threads : PermsCacheSet(t) /\ UNCHANGED rel_rest)
    \/ (\E t \in Threads : Respond(t) /\ UNCHANGED rel_rest)
    \/ (Tick /\ UNCHANGED rel_rest)
    \/ (AccessChange /\ UNCHANGED rel_rest)

(***************************************************************************)
(* OrganizationPermission and its subclasses: has_object_permission.       *)
(*                                                                         *)
(* determine_access (SentryPermission) sets request.access or refuses the  *)
(* request by raising; both are inputs, as are the scopes of               *)
(* request.access.                                                         *)
(***************************************************************************)
\* Largest number of scopes request.access holds (besides holding all of them).
MaxScopes == 2

Methods == {"GET", "POST", "PUT", "DELETE", "PATCH"}

OrgRWA   == {"org:read", "org:write", "org:admin"}
EventRWA == {"event:read", "event:write", "event:admin"}
ProjRWA  == {"project:read", "project:write", "project:admin"}

\* The scope_map of each permission class (lines 37-157), lists as sets.
scope_map ==
    [OrganizationPermission |->
        [GET |-> OrgRWA, POST |-> {"org:write", "org:admin"},
         PUT |-> {"org:write", "org:admin"}, DELETE |-> {"org:admin"}],
     OrganizationAuditPermission |->
        [GET |-> {"org:write"}],
     OrganizationEventPermission |->
        [GET |-> EventRWA, POST |-> {"event:write", "event:admin"},
         PUT |-> {"event:write", "event:admin"}, DELETE |-> {"event:admin"}],
     OrganizationReleasePermission |->
        [GET |-> ProjRWA \cup {"project:releases"},
         POST |-> {"project:write", "project:admin", "project:releases"},
         PUT |-> {"project:write", "project:admin", "project:releases"},
         DELETE |-> {"project:admin", "project:releases"}],
     OrganizationIntegrationsPermission |->
        [GET |-> OrgRWA \cup {"org:integrations"},
         POST |-> {"org:write", "org:admin", "org:integrations"},
         PUT |-> {"org:write", "org:admin", "org:integrations"},
         DELETE |-> {"org:admin", "org:integrations"}],
     OrganizationAdminPermission |->
        [GET |-> {"org:admin"}, POST |-> {"org:admin"},
         PUT |-> {"org:admin"}, DELETE |-> {"org:admin"}],
     OrganizationAuthProviderPermission |->
        [GET |-> {"org:read"}, POST |-> {"org:admin"},
         PUT |-> {"org:admin"}, DELETE |-> {"org:admin"}],
     OrganizationUserReportsPermission |->
        [GET |-> ProjRWA],
     OrganizationPinnedSearchPermission |->
        [PUT |-> OrgRWA, DELETE |-> OrgRWA],
     OrganizationSearchPermission |->
        [GET |-> OrgRWA, POST |-> {"org:write", "org:admin"},
         PUT |-> {"org:write", "org:admin"}, DELETE |-> {"org:write", "org:admin"}],
     OrganizationDataExportPermission |->
        [GET |-> EventRWA, POST |-> EventRWA],
     OrganizationAlertRulePermission |->
        [GET |-> OrgRWA \cup {"alert_rule:read"},
         POST |-> {"org:write", "org:admin", "alert_rule:write"},
         PUT |-> {"org:write", "org:admin", "alert_rule:write"},
         DELETE |-> {"org:write", "org:admin", "alert_rule:write"}]]

PermissionClasses == DOMAIN scope_map

\* Every scope a scope_map names, and one that none names.
AllScopes ==
    OrgRWA \cup EventRWA \cup ProjRWA
    \cup {"project:releases", "org:integrations", "alert_rule:read",
          "alert_rule:write", "member:read"}

\* The scopes request.access may hold.
ScopeSets == {s \in SUBSET AllScopes : Cardinality(s) <= MaxScopes} \cup {AllScopes}

\* What determine_access does: it returns, or raises one of its refusals.
DetermineOutcomes == {"ok", "SsoRequired"}

\* Mutant of has_object_permission: a method without an entry in the class's
\* scope_map falls back to the entry of OrganizationPermission.
has_object_permission_inherits(cls, method, scopes, determined) ==
    IF determined # "ok" THEN Raise(determined)
    ELSE LET allowed_scopes ==
                 IF method \in DOMAIN scope_map[cls] THEN scope_map[cls][method]
                 ELSE IF method \in DOMAIN scope_map["OrganizationPermission"]
                 THEN scope_map["OrganizationPermission"][method]
                 ELSE {}
         IN  Return(\E s \in allowed_scopes : s \in scopes)

\* OrganizationPermission.has_object_permission (lines 63-66), for the class cls.
has_object_permission(cls, method, scopes, determined) ==
    IF determined # "ok" THEN Raise(determined)
    ELSE LET allowed_scopes == IF method \in DOMAIN scope_map[cls]
                               THEN scope_map[cls][method] ELSE {}
         IN  Return(\E s \in allowed_scopes : s \in scopes)

NoPCall == [op |-> "none"]

PermIdle == pcall = NoPCall

\* permission.has_object_permission(request, view, organization) is called.
HasObjectPermission ==
    /\ pcall.op = "none"
    /\ \E cls \in PermissionClasses, m \in Methods, s \in ScopeSets,
          d \in DetermineOutcomes :
        pcall' = [op |-> "has_object_permission", cls |-> cls, method |-> m,
                  scopes |-> s, determined |-> d,
                  result |-> has_object_permission(cls, m, s, d)]

NextPermission ==
    \/ (HasObjectPermission /\ UNCHANGED perm_rest)

(***************************************************************************)
(* OrganizationEndpoint.convert_args, statement by statement.              *)
(*                                                                         *)
(* Inputs: whether resolve_region finds a region, request.subdomain, the   *)
(* organization_slug of the URL, request.user and request.auth, and what   *)
(* check_object_permissions does.  The organizations that exist are those  *)
(* of Organizations.                                                       *)
(***************************************************************************)
Organizations == {"acme"}

OrganizationSlugs == {None, Some(""), Some("acme"), Some("ghost")}
Subdomains        == {None, Some(""), Some("acme"), Some("other")}

\* What check_object_permissions does: it returns or raises.
PermissionOutcomes == {"ok", "PermissionDenied"}

\* request.user in convert_args: the kinds of Users, "none" being a user that is
\* None, and "missing" for a request that has no user attribute.
ConvUsers == Users \cup {"missing"}

ConvInputs ==
    [region : BOOLEAN, subdomain : Subdomains, organization_slug : OrganizationSlugs,
     user : ConvUsers, auth : {"none", "token"}, permission : PermissionOutcomes]

NoConv == [pc |-> "idle"]

ConvIdle == conv = NoConv

\* Python truth value of organization_slug.
SlugTruthy(s) == s.some /\ s.v # ""

\* self.convert_args(request, organization_slug) is called.
ConvertArgs ==
    /\ conv.pc = "idle"
    /\ \E i \in ConvInputs :
        conv' = [pc |-> "subdomain", in |-> i, organization |-> None,
                 context |-> None, request_organization |-> None,
                 active_org |-> None, result |-> NoResult]

\* Lines 347-350.
CheckSubdomain ==
    /\ conv.pc = "subdomain"
    /\ conv' = IF /\ ~conv.in.region
                  /\ conv.in.subdomain.some
                  /\ conv.in.subdomain # conv.in.organization_slug
               THEN [conv EXCEPT !.pc = "done", !.result = Raise("ResourceDoesNotExist")]
               ELSE [conv EXCEPT !.pc = "slug"]

\* Lines 352-353.
CheckSlug ==
    /\ conv.pc = "slug"
    /\ conv' = IF ~SlugTruthy(conv.in.organization_slug)
               THEN [conv EXCEPT !.pc = "done", !.result = Raise("ResourceDoesNotExist")]
               ELSE [conv EXCEPT !.pc = "get"]

\* Lines 355-358.
GetOrganization ==
    /\ conv.pc = "get"
    /\ conv' = IF conv.in.organization_slug.v \in Organizations
               THEN [conv EXCEPT !.pc = "check",
                                 !.organization = Some(conv.in.organization_slug.v)]
               ELSE [conv EXCEPT !.pc = "done", !.result = Raise("ResourceDoesNotExist")]

\* Mutant of CheckObjectPermissions: a refusal is swallowed.
CheckObjectPermissionsSwallowed ==
    /\ conv.pc = "check"
    /\ conv' = [conv EXCEPT !.pc = "bind_context"]

\* Lines 360-363.
CheckObjectPermissions ==
    /\ conv.pc = "check"
    /\ conv' = IF conv.in.permission = "ok"
               THEN [conv EXCEPT !.pc = "bind_context"]
               ELSE [conv EXCEPT !.pc = "done", !.result = Raise(conv.in.permission)]

\* Line 365.
BindOrganizationContext ==
    /\ conv.pc = "bind_context"
    /\ conv' = [conv EXCEPT !.pc = "bind_request", !.context = conv.organization]

\* Line 367.
BindRequestOrganization ==
    /\ conv.pc = "bind_request"
    /\ conv' = [conv EXCEPT !.pc = "track", !.request_organization = conv.organization]

\* Lines 373-374.  request.user is read only when request.auth is None; reading
\* it from a request without that attribute raises AttributeError.
TrackActiveOrg ==
    /\ conv.pc = "track"
    /\ conv' = IF conv.in.auth = "none" /\ conv.in.user = "missing"
               THEN [conv EXCEPT !.pc = "done", !.result = Raise("AttributeError")]
               ELSE IF /\ conv.in.auth = "none"
                       /\ conv.in.user # "none"
                       /\ conv.in.user # "superuser"
               THEN [conv EXCEPT !.pc = "return", !.active_org = conv.organization]
               ELSE [conv EXCEPT !.pc = "return"]

\* Lines 376-377.
ConvertReturn ==
    /\ conv.pc = "return"
    /\ conv' = [conv EXCEPT !.pc = "done", !.result = Return(conv.organization)]

NextConvert ==
    \/ (ConvertArgs /\ UNCHANGED conv_rest)
    \/ (CheckSubdomain /\ UNCHANGED conv_rest)
    \/ (CheckSlug /\ UNCHANGED conv_rest)
    \/ (GetOrganization /\ UNCHANGED conv_rest)
    \/ (CheckObjectPermissions /\ UNCHANGED conv_rest)
    \/ (BindOrganizationContext /\ UNCHANGED conv_rest)
    \/ (BindRequestOrganization /\ UNCHANGED conv_rest)
    \/ (TrackActiveOrg /\ UNCHANGED conv_rest)
    \/ (ConvertReturn /\ UNCHANGED conv_rest)

(***************************************************************************)
(* GroupSerializerBase: the status of a serialized group                   *)
(* (api/serializers/models/group.py).                                      *)
(*                                                                         *)
(* Inputs: the group's stored status and whether it is over its resolve    *)
(* age, its snooze (if any) and whether the snooze is still valid, the     *)
(* release resolution row and the resolving commit (if any), and the       *)
(* progress of its reprocessing.  statusDetails is a function from its     *)
(* keys to their values.                                                   *)
(***************************************************************************)
\* GroupStatus, and one value it does not name.
GroupStatuses ==
    {"UNRESOLVED", "RESOLVED", "IGNORED", "PENDING_DELETION", "DELETION_IN_PROGRESS",
     "PENDING_MERGE", "REPROCESSING", "OTHER"}

\* GroupResolution.type: in_release, in_next_release, NULL, and any other value.
ResolutionTypes == {"in_release", "in_next_release", "None", "other"}

\* Rows of GroupResolution as (type, release__version, actor_id).
ReleaseResolutions == {None} \cup {Some(<<ty, "1.0", 1>>) : ty \in ResolutionTypes}

\* The serialized commit that resolves the group.
CommitResolutions == {None, Some("commit abc")}

\* GroupSnooze rows: count, window, user_count, user_window (None or a number),
\* the counters saved when the snooze was made, and what is_valid answers.
Snoozes ==
    {None} \cup
    {Some([valid |-> v, count |-> c, window |-> w, user_count |-> uc,
           user_window |-> uw, until |-> "tomorrow",
           state |-> [times_seen |-> 5, users_seen |-> 1]]) :
        v \in BOOLEAN, c \in {None, Some(10)}, w \in {None, Some(60)},
        uc \in {None, Some(4)}, uw \in {None, Some(60)}}

\* get_progress(group_id): (pending events, info).
Progresses == {<<0, None>>, <<3, Some("info")>>}

GroupInputs ==
    [status : GroupStatuses, over_resolve_age : BOOLEAN, times_seen : {7},
     user_count : {3}, snooze : Snoozes, collapse_stats : BOOLEAN,
     release_resolution : ReleaseResolutions, commit_resolution : CommitResolutions,
     actor_active : BOOLEAN, progress : Progresses]

\* Python truth value of None-or-number.
NumTruthy(n) == n.some /\ n.v # 0

\* dict: the empty dict, and d[key] = val.
EmptyDict == [k \in {} |-> TRUE]
DictSet(d, key, val) == (key :> val) @@ d

\* _resolve_resolutions (lines 549-584): resolutions are looked up for groups
\* whose stored status is RESOLVED only.
resolve_resolutions(in) ==
    IF in.status = "RESOLVED"
    THEN [release |-> in.release_resolution, commit |-> in.commit_resolution]
    ELSE [release |-> None, commit |-> None]

\* _get_seen_stats (lines 422-433) and lines 293-294: the keys the seen stats add
\* to the attrs; none when "stats" is collapsed.
seen_stats_attrs(in) ==
    IF in.collapse_stats THEN EmptyDict ELSE [user_count |-> in.user_count]

\* Mutant of get_attrs: the commit resolution is looked at first.
get_attrs_commit_first(in) ==
    LET rs      == resolve_resolutions(in)
        actor   == IF in.actor_active THEN Some("actor") ELSE None
    IN  seen_stats_attrs(in) @@
        [ignore_until |-> in.snooze,
         ignore_actor |-> IF in.snooze.some THEN actor ELSE None,
         resolution |-> IF rs.commit.some THEN rs.commit ELSE rs.release,
         resolution_type |-> IF rs.commit.some THEN "commit"
                             ELSE IF rs.release.some THEN "release" ELSE "None",
         resolution_actor |-> IF ~rs.commit.some /\ rs.release.some THEN actor ELSE None]

\* get_attrs (lines 257-294): the attrs _get_status reads.
get_attrs(in) ==
    LET rs      == resolve_resolutions(in)
        actor   == IF in.actor_active THEN Some("actor") ELSE None
    IN  seen_stats_attrs(in) @@
        [ignore_until |-> in.snooze,
         ignore_actor |-> IF in.snooze.some THEN actor ELSE None,
         resolution |-> IF rs.release.some THEN rs.release ELSE rs.commit,
         resolution_type |-> IF rs.release.some THEN "release"
                             ELSE IF rs.commit.some THEN "commit" ELSE "None",
         resolution_actor |-> IF rs.release.some THEN actor ELSE None]

\* Lines 372-391: the details of a snooze that is still valid.
snooze_details(attrs, in) ==
    LET snooze == attrs.ignore_until.v
    IN  [ignoreCount |->
            IF NumTruthy(snooze.count) /\ ~NumTruthy(snooze.window)
            THEN Some(snooze.count.v - (in.times_seen - snooze.state.times_seen))
            ELSE snooze.count,
         ignoreUntil |-> snooze.until,
         ignoreUserCount |->
            IF NumTruthy(snooze.user_count) /\ ~NumTruthy(snooze.user_window)
               /\ ~in.collapse_stats
            THEN Some(snooze.user_count.v - (attrs.user_count - snooze.state.users_seen))
            ELSE snooze.user_count,
         ignoreUserWindow |-> snooze.user_window,
         ignoreWindow |-> snooze.window,
         actor |-> attrs.ignore_actor]

\* Mutant of effective_status: an expired snooze leaves the stored status alone.
effective_status_stored(attrs, in) == in.status

\* Lines 367-394: the status after the snooze was looked at.
effective_status(attrs, in) ==
    IF attrs.ignore_until.some /\ ~attrs.ignore_until.v.valid
    THEN "UNRESOLVED"
    ELSE in.status

\* GroupSerializerBase._get_status (lines 366-420): (status_details, status_label).
get_status(attrs, in) ==
    LET snoozed == attrs.ignore_until.some
        valid   == snoozed /\ attrs.ignore_until.v.valid
        d1 == IF valid THEN snooze_details(attrs, in) ELSE EmptyDict
        s1 == effective_status(attrs, in)
        auto == s1 = "UNRESOLVED" /\ in.over_resolve_age
        s2 == IF auto THEN "RESOLVED" ELSE s1
        d2 == IF auto THEN DictSet(d1, "autoResolved", TRUE) ELSE d1
    IN  IF s2 = "RESOLVED" THEN
            [label |-> "resolved",
             details |->
                IF attrs.resolution_type = "release" THEN
                    LET res_type    == attrs.resolution.v[1]
                        res_version == attrs.resolution.v[2]
                        d3 == IF res_type \in {"in_next_release", "None"}
                              THEN DictSet(d2, "inNextRelease", TRUE)
                              ELSE IF res_type = "in_release"
                              THEN DictSet(d2, "inRelease", res_version)
                              ELSE d2
                    IN  DictSet(d3, "actor", attrs.resolution_actor)
                ELSE IF attrs.resolution_type = "commit"
                THEN DictSet(d2, "inCommit", attrs.resolution.v)
                ELSE d2]
        ELSE IF s2 = "IGNORED" THEN [label |-> "ignored", details |-> d2]
        ELSE IF s2 \in {"PENDING_DELETION", "DELETION_IN_PROGRESS"}
        THEN [label |-> "pending_deletion", details |-> d2]
        ELSE IF s2 = "PENDING_MERGE" THEN [label |-> "pending_merge", details |-> d2]
        ELSE IF s2 = "REPROCESSING"
        THEN [label |-> "reprocessing",
              details |-> DictSet(DictSet(d2, "pendingEvents", in.progress[1]),
                                  "info", in.progress[2])]
        ELSE [label |-> "unresolved", details |-> d2]

NoGCall == [op |-> "none"]

GroupIdle == gcall = NoGCall

\* A group is serialized: get_attrs, then _get_status (line 300).
GetStatus ==
    /\ gcall.op = "none"
    /\ \E in \in GroupInputs :
        LET attrs == get_attrs(in)
            r     == get_status(attrs, in)
        IN  gcall' = [op |-> "get_status", in |-> in, attrs |-> attrs,
                      details |-> r.details, label |-> r.label]

NextGroupStatus ==
    \/ (GetStatus /\ UNCHANGED group_rest)

\* The codec alone: any input pattern, the indexer idle.
InitCodec ==
    value \in CodecInputs /\ CodecIdle /\ IndexerIdle /\ ConcIdle /\ CachingIdle /\ OrgIdle /\ RelIdle /\ PermIdle /\ ConvIdle /\ GroupIdle
SpecCodec == InitCodec /\ [][NextCodec]_vars

\* The indexer alone: the codec untouched.
InitIndexer == value = 0 /\ CodecIdle /\ IndexerIdle /\ ConcIdle /\ CachingIdle /\ OrgIdle /\ RelIdle /\ PermIdle /\ ConvIdle /\ GroupIdle
SpecIndexer == InitIndexer /\ [][NextIndexer]_vars

\* Concurrent callers of the indexer.
InitConcurrent == value = 0 /\ CodecIdle /\ IndexerIdle /\ ConcIdle /\ CachingIdle /\ OrgIdle /\ RelIdle /\ PermIdle /\ ConvIdle /\ GroupIdle
SpecConcurrent == InitConcurrent /\ [][NextConcurrent]_vars

\* The indexer behind its cache.
InitCaching == value = 0 /\ CodecIdle /\ IndexerIdle /\ ConcIdle /\ CachingIdle /\ OrgIdle /\ RelIdle /\ PermIdle /\ ConvIdle /\ GroupIdle
SpecCaching == InitCaching /\ [][NextCaching]_vars

\* One request to an OrganizationEndpoint, in any organization and with any access.
InitProjects ==
    /\ value = 0 /\ CodecIdle /\ IndexerIdle /\ ConcIdle /\ CachingIdle
    /\ world \in Worlds
    /\ req \in Requests
    /\ ocall = NoOCall
    /\ RelIdle /\ PermIdle /\ ConvIdle /\ GroupIdle
SpecProjects == InitProjects /\ [][NextProjects]_vars

\* One permission check of one class.
InitPermission ==
    /\ value = 0 /\ CodecIdle /\ IndexerIdle /\ ConcIdle /\ CachingIdle
    /\ OrgIdle /\ RelIdle /\ PermIdle /\ ConvIdle /\ GroupIdle
SpecPermission == InitPermission /\ [][NextPermission]_vars

\* One group is serialized.
InitGroupStatus ==
    /\ value = 0 /\ CodecIdle /\ IndexerIdle /\ ConcIdle /\ CachingIdle
    /\ OrgIdle /\ RelIdle /\ PermIdle /\ ConvIdle /\ GroupIdle
SpecGroupStatus == InitGroupStatus /\ [][NextGroupStatus]_vars

\* One call of convert_args.
InitConvert ==
    /\ value = 0 /\ CodecIdle /\ IndexerIdle /\ ConcIdle /\ CachingIdle
    /\ OrgIdle /\ RelIdle /\ PermIdle /\ ConvIdle /\ GroupIdle
SpecConvert == InitConvert /\ [][NextConvert]_vars

\* One request to a release endpoint, with any auth, organization and access.
InitReleaseProjects ==
    /\ value = 0 /\ CodecIdle /\ IndexerIdle /\ ConcIdle /\ CachingIdle
    /\ world \in Worlds
    /\ req \in [user : Users, auth : Auths, project : GetProjectChoices,
                projectSlug : SlugChoices]
    /\ ocall = NoOCall
    /\ RelIdle /\ PermIdle /\ ConvIdle /\ GroupIdle
SpecReleaseProjects == InitReleaseProjects /\ [][NextReleaseProjects]_vars

\* Requests for one release of an organization with two visible projects.
InitRelease ==
    /\ value = 0 /\ CodecIdle /\ IndexerIdle /\ ConcIdle /\ CachingIdle
    /\ world \in {w \in Worlds : /\ w.visible = ProjectIds /\ w.hidden = {}
                                 /\ w.member = w.access
                                 /\ w.access \in {{}, ProjectIds}}
    /\ req = IdleRequest
    /\ ocall = NoOCall
    /\ release = {1}
    /\ rcache = [k \in CacheKeys |-> None]
    /\ evals = [k \in CacheKeys |-> NoEvals]
    /\ rcalls = [t \in Threads |-> NoRCall]
    /\ now = 0
    /\ PermIdle /\ ConvIdle /\ GroupIdle
SpecRelease == InitRelease /\ [][NextRelease]_vars

(***************************************************************************)
(* Properties of IdCodec, checked under SpecCodec.                         *)
(***************************************************************************)
\* Bit i of the unsigned pattern n, read off by division (no use of reverse_bits).
Bit(n, i) == (n \div (2 ^ i)) % 2

\* The ids value, value+1, ... of the run encoded so far all lie in the domain.
RunInDomain == Len(run) >= 1 /\ value + Len(run) - 1 \in DecodedIds

\* C1: for every x in [0, 2^63), decode(encode(x)) = x: decoding what encode
\* returned for a DecodedId gives that DecodedId back.
C1_RoundTrip ==
    (cpc = "decoded" /\ value \in DecodedIds) => dec = Return(value)

C1_Witness ==
    /\ cpc = "decoded"
    /\ value \in DecodedIds
    /\ value = 6
    /\ enc.v # value
    /\ dec = Return(6)

\* C2: for every x in [0, 2^63), encode(x) lies in [-2^63, 2^63): it fits a
\* signed integer of the full width.
C2_EncodeFitsSigned ==
    (cpc # "start" /\ value \in DecodedIds) =>
        /\ enc.kind = "return"
        /\ enc.v >= -HalfRange
        /\ enc.v < HalfRange

\* Both ends of the image are attained: here the lowest value, -2^63.
C2_Witness ==
    /\ cpc = "encoded"
    /\ value \in DecodedIds
    /\ enc.v = -HalfRange

\* C3: encode is collision-free on [0, 2^63) (no other DecodedId encodes to what
\* value encodes to), and decode is its inverse on the image: decode(encode(x))
\* is a DecodedId and encodes back to encode(x).
C3_Bijection ==
    /\ (cpc # "start" /\ value \in DecodedIds) =>
          \A x \in DecodedIds \ {value} : encode(x) # enc.v
    /\ (cpc = "decoded" /\ value \in DecodedIds) =>
          /\ dec.v \in DecodedIds
          /\ encode(dec.v) = enc.v

C3_Witness ==
    /\ cpc = "decoded"
    /\ value \in DecodedIds
    /\ value = HalfRange - 3
    /\ dec.v \in DecodedIds
    /\ encode(dec.v) = enc.v

\* C4: encode(x) + 2^63 is the bit-for-bit reversal of x zero-extended to the
\* full width (bit i of the one is bit width-1-i of the other); equivalently the
\* reversal of x's 63-bit pattern shifted left by one, so it is even; and
\* decode(y) is the full-width reversal of y + 2^63.
C4_BitReversal ==
    /\ (cpc # "start" /\ value \in DecodedIds) =>
          /\ \A i \in 0 .. (IdBits - 1) :
                Bit(enc.v + HalfRange, i) = Bit(value, IdBits - 1 - i)
          /\ \A i \in 0 .. (IdBits - 2) :
                Bit(enc.v + HalfRange, i + 1) = Bit(value, IdBits - 2 - i)
          /\ (enc.v + HalfRange) % 2 = 0
    /\ cpc = "decoded" =>
          \A i \in 0 .. (IdBits - 1) :
                Bit(dec.v, i) = Bit(enc.v + HalfRange, IdBits - 1 - i)

\* 1 encodes to the pattern with only the top bit set (2^62 shifted left by
\* one), so encode(1) = 0.
C4_Witness ==
    /\ cpc = "decoded"
    /\ value = 1
    /\ enc.v + HalfRange = 2 ^ (IdBits - 2) * 2
    /\ dec.v = 1

\* C5: encode(0) = -2^63, and encode(2^63 - 1) is not 2^63 - 1.
C5_ConcreteVectors ==
    /\ (cpc # "start" /\ value = 0) => enc = Return(-HalfRange)
    /\ (cpc # "start" /\ value = HalfRange - 1) => enc.v # HalfRange - 1

C5_Witness ==
    /\ cpc = "encoded"
    /\ value = HalfRange - 1
    /\ enc.v = HalfRange - 2

\* C6: in a sequential run x, x+1, ... inside [0, 2^63), neighbouring encodings
\* fall in opposite halves of the key space (exactly one of the two is
\* negative), so no three consecutive encodings are monotonically ordered.
C6_NoMonotonicRun ==
    RunInDomain =>
        /\ \A k \in 1 .. (Len(run) - 1) : (run[k] < 0) # (run[k + 1] < 0)
        /\ \A k \in 1 .. (Len(run) - 2) :
              /\ ~(run[k] <= run[k + 1] /\ run[k + 1] <= run[k + 2])
              /\ ~(run[k] >= run[k + 1] /\ run[k + 1] >= run[k + 2])

C6_Witness ==
    /\ RunInDomain
    /\ Len(run) >= 3
    /\ value = 5
    /\ run[1] >= 0 /\ run[2] < 0 /\ run[3] >= 0

\* C7: encode called with a value outside [0, 2^63) fails with an error instead
\* of returning a value.
C7_OutOfDomainFails ==
    (cpc # "start" /\ value \notin DecodedIds) => enc.kind = "raise"

(***************************************************************************)
(* Properties of RawCloudSpannerIndexer, checked under SpecIndexer.        *)
(***************************************************************************)
\* The call in progress has ended (returned or raised).
Ended == ipc \in {"returned", "raised"}

\* C8: bulk_record returns a KeyResults with exactly one KeyResult for every
\* (org_id, string) pair of the input mapping and none for other pairs, each
\* carrying the id record yields for the pair.
C8_BulkRecordFullMapping ==
    (op = "bulk_record" /\ Ended) =>
        /\ result = Return(key_results)
        /\ {<<k.org_id, k.string>> : k \in key_results} = Pairs(org_strings)
        /\ Cardinality(key_results) = Cardinality(Pairs(org_strings))
        /\ \A k \in key_results :
              record(use_case_id, k.org_id, k.string) = Return(k.id)

\* C9: when recording one key of a batch fails, bulk_record does not raise for
\* the whole call, and the keys after the failing one are still processed (the
\* loops run to their end).
C9_PartialFailureCaptured ==
    (op = "bulk_record" /\ Ended) =>
        /\ result.kind # "raise"
        /\ orgs_left = {}
        /\ strs_left = {}

\* C10: calling record twice for the same (use_case, org_id, string) returns
\* the same id both times.
C10_RecordTwiceSameId ==
    (/\ op = "record" /\ Ended
     /\ prev.op = "record"
     /\ prev.use_case_id = use_case_id
     /\ prev.arg = arg) =>
        /\ prev.result.kind = "return"
        /\ result.kind = "return"
        /\ result.v = prev.result.v

\* C12: reverse_resolve of the id that record returned for a string gives the
\* string back: record(u, o, s) returns an id, and a reverse_resolve(u, o, id)
\* that follows it returns s.
C12_ReverseConsistency ==
    (/\ op = "reverse_resolve" /\ Ended
     /\ prev.op = "record"
     /\ prev.use_case_id = use_case_id
     /\ prev.arg.org_id = arg.org_id) =>
        /\ prev.result.kind = "return"
        /\ prev.result.v.some
        /\ (arg.id = prev.result.v.v => result = Return(Some(prev.arg.string)))

\* C14: resolve of a string that was never recorded returns the explicit
\* absent value, not an error (no string is ever recorded by this backend).
C14_ResolveAbsentNotError ==
    (op = "resolve" /\ Ended) => result = Return(None)

\* C15: record, resolve and reverse_resolve end in NotImplementedError and
\* never return (in particular never return None, the key-not-found value);
\* bulk_record with at least one (org, string) pair ends in that error too.
C15_NotImplementedDistinct ==
    /\ (Ended /\ op \in {"record", "resolve", "reverse_resolve"}) =>
          /\ result = Raise("NotImplementedError")
          /\ result # Return(None)
    /\ (Ended /\ op = "bulk_record" /\ Pairs(org_strings) # {}) =>
          result = Raise("NotImplementedError")

C15_Witness ==
    /\ op = "bulk_record"
    /\ ipc = "raised"
    /\ Cardinality(Pairs(org_strings)) >= 2
    /\ result = Raise("NotImplementedError")
    /\ prev.op = "resolve"
    /\ prev.result = Raise("NotImplementedError")

\* C16: validate runs the query whenever the snapshot opened; it returns
\* normally when the query raises ValueError; every other error propagates,
\* and so does any error (ValueError too) raised while opening the snapshot.
C16_ValidateErrors ==
    (op = "validate" /\ Ended) =>
        /\ arg.snapshot = "ok" => arg.query # "not run"
        /\ arg.query = "ValueError" => result = Return(None)
        /\ arg.query = "GoogleAPICallError" => result = Raise("GoogleAPICallError")
        /\ arg.snapshot # "ok" => (result = Raise(arg.snapshot) /\ arg.query = "not run")
        /\ result.kind = "return" => (arg.snapshot = "ok" /\ arg.query \in {"ok", "ValueError"})

\* The query raised ValueError and validate returned.
C16_Witness ==
    /\ op = "validate"
    /\ ipc = "returned"
    /\ arg = [snapshot |-> "ok", query |-> "ValueError"]
    /\ result = Return(None)

(***************************************************************************)
(* Properties of concurrent callers, checked under SpecConcurrent.         *)
(***************************************************************************)
\* The calls that have ended.
EndedCallers == {c \in Callers : callers[c].pc \in {"returned", "raised"}}

\* The id caller c obtained for the pair (o, s); {} when it obtained none.
IdsObtained(c, o, s) ==
    IF callers[c].result.kind # "return" THEN {}
    ELSE IF callers[c].op = "record"
         THEN (IF callers[c].org_strings = (o :> {s}) THEN {callers[c].result.v} ELSE {})
         ELSE {k.id : k \in {k \in callers[c].key_results :
                                 k.org_id = o /\ k.string = s}}

\* C11: when several callers run record / bulk_record at once for overlapping
\* pairs, none of them fails, each obtains an id for every pair it asked for,
\* and all obtain the same id for the same key.
C11_ConcurrentCallersConverge ==
    \A c \in EndedCallers :
        /\ callers[c].result.kind = "return"
        /\ \A p \in Pairs(callers[c].org_strings) :
              /\ IdsObtained(c, p[1], p[2]) # {}
              /\ \A d \in EndedCallers :
                    (callers[d].use_case_id = callers[c].use_case_id
                     /\ p \in Pairs(callers[d].org_strings)) =>
                        IdsObtained(d, p[1], p[2]) = IdsObtained(c, p[1], p[2])

C17_CacheDownStillSucceeds ==
    (/\ op \in {"cached_record", "cached_resolve", "cached_bulk_record"}
     /\ Ended
     /\ ~cache_up) =>
        result.kind = "return"

(***************************************************************************)
(* Properties of OrganizationEndpoint.                                     *)
(***************************************************************************)
\* The project ids a get_projects call asks for: its project_ids argument, else
\* the projects of the organization named by slug, else the request's "project"
\* parameters.
RequestedOfCall ==
    IF ocall.project_ids.some THEN ocall.project_ids.v
    ELSE IF Truthy(ocall.project_slugs)
         THEN {p \in ProjectIds : p \in world.visible \cup world.hidden
                                  /\ SlugOf(p) \in ocall.project_slugs.v}
    ELSE IF req.projectSlug # {}
         THEN {p \in ProjectIds : p \in world.visible \cup world.hidden
                                  /\ SlugOf(p) \in req.projectSlug}
    ELSE req.project

\* The call names projects itself: it does not use "$all" or the sentinel -1.
ExplicitRequest ==
    /\ ocall.op = "get_projects"
    /\ ~ (ocall.project_ids.some /\ ocall.project_ids.v = ALL_ACCESS_PROJECTS)
    /\ ~ (~ocall.project_ids.some /\ Truthy(ocall.project_slugs)
          /\ ALL_ACCESS_PROJECTS_SLUG \in ocall.project_slugs.v)
    /\ ~ (~ocall.project_ids.some /\ ~Truthy(ocall.project_slugs)
          /\ ALL_ACCESS_PROJECTS_SLUG \in req.projectSlug)
    /\ ~ (~ocall.project_ids.some /\ ~Truthy(ocall.project_slugs)
          /\ req.projectSlug = {} /\ req.project = ALL_ACCESS_PROJECTS)
    /\ RequestedOfCall # {}

\* C18: get_projects is all-or-nothing for explicitly requested projects: with
\* a non-empty set of project ids requested it raises PermissionDenied or
\* returns projects whose ids are exactly the requested ones, never a strict
\* subset; without force_global_perms every returned project passes
\* request.access.has_project_access.
C18_AllOrNothing ==
    ExplicitRequest =>
        \/ ocall.result = Raise("PermissionDenied")
        \/ /\ ocall.result.kind = "return"
           /\ ocall.result.v = RequestedOfCall
           /\ ~ocall.force_global_perms => ocall.result.v \subseteq world.access

\* Two visible projects are requested, only one of them is accessible: the call
\* is refused rather than answered with the accessible one.
C18_Witness ==
    /\ ExplicitRequest
    /\ RequestedOfCall = {1, 2}
    /\ world.visible = {1, 2}
    /\ world.access = {1}
    /\ ~ocall.force_global_perms
    /\ ocall.result = Raise("PermissionDenied")

\* C19: get_filter_params validates the project_ids it is given: the project_id
\* list it returns holds only ids of project_ids and only projects the request
\* has access to, and it raises PermissionDenied when one of the given projects
\* is not accessible; giving project_ids never switches the access check off.
C19_FilterParamsValidate ==
    (/\ ocall.op = "get_filter_params"
     /\ Truthy(ocall.project_ids)
     /\ ocall.project_ids.v # ALL_ACCESS_PROJECTS) =>
        /\ ocall.result.kind = "return" =>
            /\ ocall.result.v \subseteq ocall.project_ids.v
            /\ ocall.result.v \subseteq world.access
        /\ (ocall.date_valid /\ ~ (ocall.project_ids.v \subseteq world.access)) =>
            ocall.result = Raise("PermissionDenied")

(***************************************************************************)
(* Properties of OrganizationReleasesBaseEndpoint.                         *)
(***************************************************************************)
\* The request r has no actor: no user id and no auth id.
NoActorOf(r) == r.auth.kind = "none" /\ r.user \notin {"user", "superuser"}

\* C20, as claimed: has_release_permission caches its result for 60 seconds
\* per actor, organization, release and sorted requested project ids: a call
\* that returns less than 60 seconds after a call of the same key evaluated
\* project access and returned, returns that call's value, True or False,
\* without evaluating again, whatever happened to the access in between; a
\* request without an actor neither reads nor writes the cache.
C20_CachedForTimeout ==
    \A t \in Threads :
        rcalls[t].pc = "done" =>
            LET c == rcalls[t]
            IN  /\ (~NoActorOf(c.req) /\ c.prior.some
                    /\ c.done_at < c.prior.v.at + CacheTimeout) =>
                      (c.result = Return(c.prior.v.value) /\ ~c.evaluated)
                /\ NoActorOf(c.req) => (~c.read /\ ~c.written)

\* C20, amended: a call that looks the cache up less than 60 seconds after a
\* call of the same key stored its result returns the value stored last under
\* the key, True or False, without evaluating project access, whatever happened
\* to the access in between; a call with an actor that evaluates and returns
\* stores its value; a request without an actor neither reads nor writes the
\* cache and always evaluates.
C20_CachedAfterStore ==
    \A t \in Threads :
        rcalls[t].pc = "done" =>
            LET c == rcalls[t]
            IN  /\ (~NoActorOf(c.req) /\ c.seen.some
                    /\ c.get_at < c.seen.v.at + CacheTimeout) =>
                      (c.result = Return(c.seen.v.value) /\ ~c.evaluated)
                /\ (~NoActorOf(c.req) /\ c.evaluated /\ c.result.kind = "return") =>
                      c.written
                /\ NoActorOf(c.req) => (~c.read /\ ~c.written /\ c.evaluated)

\* A signed-in user was refused at 0 seconds; the user then got access to every
\* project of the release; the call at 30 seconds still answers False.
C20_Witness ==
    \E t \in Threads :
        /\ rcalls[t].pc = "done"
        /\ rcalls[t].req = [user |-> "user", auth |-> NoAuth, project |-> {},
                            projectSlug |-> {}]
        /\ rcalls[t].seen = Some([at |-> 0, value |-> FALSE])
        /\ rcalls[t].get_at = TickSeconds
        /\ release \subseteq world.access
        /\ rcalls[t].result = Return(FALSE)

(***************************************************************************)
(* More properties of OrganizationEndpoint.                                *)
(***************************************************************************)
\* The call asks for "all accessible projects": the sentinel -1 or the slug $all.
SentinelRequest ==
    /\ ocall.op = "get_projects"
    /\ \/ (ocall.project_ids.some /\ ocall.project_ids.v = ALL_ACCESS_PROJECTS)
       \/ (~ocall.project_ids.some /\ Truthy(ocall.project_slugs)
           /\ ALL_ACCESS_PROJECTS_SLUG \in ocall.project_slugs.v)
       \/ (~ocall.project_ids.some /\ ~Truthy(ocall.project_slugs)
           /\ ALL_ACCESS_PROJECTS_SLUG \in req.projectSlug)
       \/ (~ocall.project_ids.some /\ ~Truthy(ocall.project_slugs)
           /\ req.projectSlug = {} /\ req.project = ALL_ACCESS_PROJECTS)

\* The call hands no project id to _get_projects_by_id.
NoIdsRequest ==
    /\ ocall.op = "get_projects"
    /\ ~SentinelRequest
    /\ RequestedOfCall = {}

\* C22, as claimed: with force_global_perms false, no project ids gives exactly
\* the visible projects passing has_project_membership, and the sentinel -1
\* gives exactly the visible projects passing has_project_access.
C22_MembershipVsAccess ==
    (ocall.op = "get_projects" /\ ~ocall.force_global_perms) =>
        /\ NoIdsRequest => ocall.result = Return(world.visible \cap world.member)
        /\ SentinelRequest => ocall.result = Return(world.visible \cap world.access)

\* C23: a release endpoint's get_projects returns the empty list without
\* asking for any project when the request carries an ApiKey of another
\* organization, and when it has neither an ApiKey holding project:releases or
\* project:write nor an authenticated user; the per-project access checks are
\* skipped only for an ApiKey of this organization holding one of the two scopes.
C23_ReleasesGetProjectsGate ==
    ocall.op = "releases_get_projects" =>
        LET key_scoped ==
                /\ req.auth.kind = "apikey"
                /\ req.auth.scopes \cap {"project:releases", "project:write"} # {}
        IN  /\ (req.auth.kind = "apikey" /\ ~req.auth.same_org) =>
                  (ocall.result = Return({}) /\ ~ocall.consulted)
            /\ (~key_scoped /\ req.user \notin {"user", "superuser"}) =>
                  (ocall.result = Return({}) /\ ~ocall.consulted)
            /\ (ocall.consulted /\ ocall.force_global_perms) =>
                  (key_scoped /\ req.auth.same_org)
            /\ (ocall.result.kind = "return"
                /\ ~ (ocall.result.v \subseteq world.access \cup world.member)) =>
                  (key_scoped /\ req.auth.same_org)

\* A signed-in user with access to both projects sends another organization's
\* ApiKey that holds project:write: nothing is returned.
C23_Witness ==
    /\ ocall.op = "releases_get_projects"
    /\ req.auth = [kind |-> "apikey", same_org |-> FALSE, scopes |-> {"project:write"}]
    /\ req.user = "user"
    /\ world.visible = {1, 2} /\ world.access = {1, 2}
    /\ ocall.result = Return({})

(***************************************************************************)
(* Properties of OrganizationPermission.                                   *)
(***************************************************************************)
\* C24: for every permission class and request, has_object_permission returns
\* True only if request.access holds a scope that the class's scope_map lists
\* for the request method; for a method the scope_map has no entry for (POST,
\* PUT, DELETE on OrganizationAuditPermission among them) it never returns True
\* and, where determine_access lets it return, returns False whatever the
\* scopes.
C24_ScopeMapDecides ==
    pcall.op = "has_object_permission" =>
        LET listed == pcall.method \in DOMAIN scope_map[pcall.cls]
            audit  == /\ pcall.cls = "OrganizationAuditPermission"
                      /\ pcall.method \in {"POST", "PUT", "DELETE"}
        IN  /\ pcall.result = Return(TRUE) =>
                (listed /\ scope_map[pcall.cls][pcall.method] \cap pcall.scopes # {})
            /\ (~listed \/ audit) => pcall.result # Return(TRUE)
            /\ ((~listed \/ audit) /\ pcall.determined = "ok") =>
                pcall.result = Return(FALSE)
            /\ (pcall.cls = "OrganizationAuditPermission" /\ pcall.result = Return(TRUE)) =>
                (pcall.method = "GET" /\ "org:write" \in pcall.scopes)

\* A request holding every scope asks OrganizationAuditPermission for DELETE and
\* is refused.
C24_Witness ==
    /\ pcall.op = "has_object_permission"
    /\ pcall.cls = "OrganizationAuditPermission"
    /\ pcall.method = "DELETE"
    /\ pcall.scopes = AllScopes
    /\ pcall.result = Return(FALSE)

(***************************************************************************)
(* Properties of OrganizationEndpoint.convert_args.                        *)
(***************************************************************************)
\* convert_args has bound the organization somewhere.
ConvBound ==
    conv.context.some \/ conv.request_organization.some \/ conv.active_org.some

\* The inputs for which the organization is not found.
ConvNotFound ==
    \/ ~SlugTruthy(conv.in.organization_slug)
    \/ conv.in.organization_slug.v \notin Organizations
    \/ (/\ ~conv.in.region
        /\ conv.in.subdomain.some
        /\ conv.in.subdomain # conv.in.organization_slug)

\* C25: convert_args binds the organization to the request and records it as
\* the active organization only after check_object_permissions has succeeded;
\* with an empty slug, an organization that does not exist, or (no region
\* resolved) a request subdomain other than the slug, it raises
\* ResourceDoesNotExist and binds nothing; the active organization is never
\* recorded for a request in active superuser mode or with request.auth set.
C25_BindAfterPermission ==
    conv.pc # "idle" =>
        /\ ConvBound =>
            /\ conv.in.permission = "ok"
            /\ conv.pc \in {"bind_request", "track", "return", "done"}
            /\ ~ConvNotFound
        /\ (conv.pc = "done" /\ ConvNotFound) =>
            (conv.result = Raise("ResourceDoesNotExist") /\ ~ConvBound)
        /\ (conv.pc = "done" /\ conv.result = Raise("PermissionDenied")) => ~ConvBound
        /\ conv.active_org.some =>
            (conv.in.user # "superuser" /\ conv.in.auth = "none")

\* A signed-in user of the web app reaches the organization: it is bound and
\* recorded as the active one.
C25_Witness ==
    /\ conv.pc = "done"
    /\ conv.in.user = "user" /\ conv.in.auth = "none"
    /\ conv.request_organization = Some("acme")
    /\ conv.active_org = Some("acme")
    /\ conv.result = Return(Some("acme"))

(***************************************************************************)
(* Properties of GroupSerializerBase._get_status.                          *)
(***************************************************************************)
\* The label of a status.
LabelOf(s) ==
    IF s = "RESOLVED" THEN "resolved"
    ELSE IF s = "IGNORED" THEN "ignored"
    ELSE IF s \in {"PENDING_DELETION", "DELETION_IN_PROGRESS"} THEN "pending_deletion"
    ELSE IF s = "PENDING_MERGE" THEN "pending_merge"
    ELSE IF s = "REPROCESSING" THEN "reprocessing"
    ELSE "unresolved"

\* The group has a snooze that is no longer valid.
SnoozeExpired == gcall.in.snooze.some /\ ~gcall.in.snooze.v.valid

\* C26: the effective status is UNRESOLVED whenever the group has a snooze that
\* is no longer valid, whatever the stored status, and the stored status
\* otherwise; statusDetails.autoResolved is set exactly when the effective
\* status is UNRESOLVED and the group is over its resolve age, and the label is
\* then "resolved"; in every other case the label is that of the effective
\* status.
C26_EffectiveStatus ==
    gcall.op = "get_status" =>
        LET effective == IF SnoozeExpired THEN "UNRESOLVED" ELSE gcall.in.status
            auto      == "autoResolved" \in DOMAIN gcall.details
        IN  /\ auto <=> (effective = "UNRESOLVED" /\ gcall.in.over_resolve_age)
            /\ auto => (gcall.details["autoResolved"] = TRUE /\ gcall.label = "resolved")
            /\ ~auto => gcall.label = LabelOf(effective)

\* An ignored group whose snooze has run out and which is over its resolve age
\* is shown as resolved, automatically.
C26_Witness ==
    /\ gcall.op = "get_status"
    /\ gcall.in.status = "IGNORED"
    /\ SnoozeExpired
    /\ gcall.in.over_resolve_age
    /\ "autoResolved" \in DOMAIN gcall.details
    /\ gcall.label = "resolved"

\* The keys of statusDetails that name a resolution.
ResolutionKeys == DOMAIN gcall.details \cap {"inNextRelease", "inRelease", "inCommit"}

\* get_attrs found a release resolution and a commit resolution for the group.
BothResolutions ==
    /\ gcall.in.status = "RESOLVED"
    /\ gcall.in.release_resolution.some
    /\ gcall.in.commit_resolution.some

\* C27: for every input the label is one of resolved, ignored,
\* pending_deletion, pending_merge, reprocessing, unresolved; inNextRelease,
\* inRelease and inCommit appear in statusDetails only with the label
\* "resolved", and at most one of them; pendingEvents appears only with the
\* label "reprocessing"; with both a release resolution and a commit
\* resolution, the release resolution is the one reported.
C27_StatusDetailsShape ==
    gcall.op = "get_status" =>
        /\ gcall.label \in {"resolved", "ignored", "pending_deletion", "pending_merge",
                            "reprocessing", "unresolved"}
        /\ ResolutionKeys # {} => gcall.label = "resolved"
        /\ Cardinality(ResolutionKeys) <= 1
        /\ "pendingEvents" \in DOMAIN gcall.details => gcall.label = "reprocessing"
        /\ BothResolutions =>
            /\ "inCommit" \notin DOMAIN gcall.details
            /\ gcall.attrs.resolution_type = "release"
            /\ gcall.attrs.resolution = gcall.in.release_resolution
            /\ (gcall.label = "resolved"
                /\ gcall.in.release_resolution.v[1] \in {"in_next_release", "None"}) =>
                  ResolutionKeys = {"inNextRelease"}
            /\ (gcall.label = "resolved"
                /\ gcall.in.release_resolution.v[1] = "in_release") =>
                  (ResolutionKeys = {"inRelease"}
                   /\ gcall.details["inRelease"] = gcall.in.release_resolution.v[2])

\* A resolved group with a resolution in release 1.0 and a resolving commit:
\* the release is reported.
C27_Witness ==
    /\ gcall.op = "get_status"
    /\ BothResolutions
    /\ gcall.in.release_resolution.v[1] = "in_release"
    /\ gcall.label = "resolved"
    /\ ResolutionKeys = {"inRelease"}
    /\ gcall.details["inRelease"] = "1.0"

====
